---- MODULE Spec2Model ----
(***************************************************************************)
(* query-ast: a jQuery-like traversal / mutation engine over an AST.       *)
(*                                                                         *)
(* A raw AST node { type, value } is the record                            *)
(*   [type, isArray, items, string]                                        *)
(* where value is the array `items` when isArray, and the string `string`  *)
(* otherwise.  An Overlay node (class Node) is a heap cell                 *)
(*   [node, parent, children]                                              *)
(* addressed by its position in `heap`; that position is the object's      *)
(* identity.  parent = NoParent stands for `undefined`; children = << >>   *)
(* with hasChildren false stands for `null`.                               *)
(***************************************************************************)
EXTENDS Integers, Sequences, FiniteSets, TLC

VARIABLES ast, heap, removed, sel, last, out, handed

vars == <<ast, heap, removed, sel, last, out, handed>>

----------------------------------------------------------------------------
(* Bounds of the model *)

\* most Overlay nodes one session constructs after the overlay of the tree is built
MaxNew == 1
\* most nodes handed to the query function $([...]) in one call
MaxSel == 1
\* most calls of one session that are handed an existing Overlay node
MaxHanded == 1
\* most Overlay nodes a session that works on whole children arrays constructs
MaxGrown == 2

----------------------------------------------------------------------------
(* Raw trees in the default { type, value } format *)

Leaf(t, s) == [type |-> t, isArray |-> FALSE, items |-> <<>>, string |-> s]
Branch(t, kids) == [type |-> t, isArray |-> TRUE, items |-> kids, string |-> ""]

\* .r .g .b : three sibling leaves
AstFlat ==
  Branch("stylesheet", << Leaf("class", "r"), Leaf("class", "g"), Leaf("class", "b") >>)
\* .r {} : one rule holding a class
AstChain == Branch("stylesheet", << Branch("rule", << Leaf("class", "r") >>) >>)
\* a rule holding a class and an empty rule
AstNested ==
  Branch("stylesheet", << Branch("rule", << Leaf("class", "r"), Branch("rule", <<>>) >>) >>)
\* .r {} .g {} : two rules separated by whitespace
AstRules ==
  Branch("stylesheet", << Branch("rule", <<Leaf("class", "r")>>),
                          Leaf("space", " "),
                          Branch("rule", <<Leaf("class", "g")>>) >>)
\* .r { .g {} } .b : a rule nested in a rule, then a sibling class
AstDeep ==
  Branch("stylesheet", << Branch("rule", << Leaf("class", "r"),
                                            Branch("rule", <<Leaf("class", "g")>>) >>),
                          Leaf("class", "b") >>)
\* a root that is a leaf
AstLeaf == Leaf("class", "r")
\* the tree of the README's Getting Started
AstReadme ==
  Branch("program", << Branch("item_container", <<Leaf("item", "a")>>),
                       Branch("item_container", <<>>),
                       Leaf("item", "b") >>)

\* the trees of the sessions that mutate
Asts == {AstFlat, AstChain}
\* the trees of the sessions that only read
AstsRead == {AstFlat, AstChain, AstNested, AstRules, AstDeep, AstLeaf, AstReadme}

\* raw nodes a caller hands to after / before, or returns from a replace callback
RawZ == Leaf("class", "z")
RawRuleZ == Branch("rule", <<Leaf("class", "z")>>)
RawArgs == {RawZ, RawRuleZ}

Types == {"stylesheet", "rule", "class", "space", "program", "item_container", "item"}

----------------------------------------------------------------------------
(* Adapter defaults (QueryOptions) *)

hasChildren(node) == node.isArray
getChildren(node) == node.items
getType(node) == node.type
toString(node) == IF node.isArray THEN "" ELSE node.string
\* faulty variant: { value: children }, without the fall-back to node.value
toJSON_noFallback(node, children) ==
  [type |-> node.type, isArray |-> children.present, items |-> children.items,
   string |-> ""]
\* Object.assign({}, node, { value: children ? children : node.value });
\* `children` is [present |-> TRUE, items |-> <<...>>] or [present |-> FALSE] (null)
toJSON(node, children) ==
  IF children.present
    THEN [type |-> node.type, isArray |-> TRUE, items |-> children.items, string |-> ""]
    ELSE node

----------------------------------------------------------------------------
(* class Node *)

NoParent == 0
ROOT == 1

RECURSIVE NewNode(_, _, _), NewChildren(_, _, _, _)
\* getChildren(node).map((n) => new Node(n, this)), appended to this.children
NewChildren(h, id, kids, i) ==
  IF i > Len(kids) THEN h
  ELSE LET c  == Len(h) + 1
           h1 == NewNode(h, kids[i], id)
           h2 == [h1 EXCEPT ![id].children = Append(@, c)]
       IN  NewChildren(h2, id, kids, i + 1)
\* new Node(node, parent): the heap with the new node (at Len(h) + 1) and its subtree
NewNode(h, node, parent) ==
  LET id == Len(h) + 1
      h0 == Append(h, [node |-> node, parent |-> parent, children |-> <<>>])
  IN  IF hasChildren(node) THEN NewChildren(h0, id, getChildren(node), 1) ELSE h0

\* faulty variant of Node.create: a raw node that has a wrapper already gets that
\* wrapper again
Create_reuses(h, arg, parent) ==
  IF arg.isNode THEN [heap |-> h, id |-> arg.id]
  ELSE IF \E m \in 1..Len(h) : h[m].node = arg.raw
    THEN [heap |-> h, id |-> CHOOSE m \in 1..Len(h) : h[m].node = arg.raw]
    ELSE [heap |-> NewNode(h, arg.raw, parent), id |-> Len(h) + 1]

\* Node.create(node, parent); arg is [isNode |-> TRUE, id] or [isNode |-> FALSE, raw]
Create(h, arg, parent) ==
  IF arg.isNode THEN [heap |-> h, id |-> arg.id]
  ELSE [heap |-> NewNode(h, arg.raw, parent), id |-> Len(h) + 1]

RawArg(r) == [isNode |-> FALSE, raw |-> r]
NodeArg(n) == [isNode |-> TRUE, id |-> n]

----------------------------------------------------------------------------
(* Array helpers, 0-based as in the source *)

\* Array.prototype.indexOf
IndexOf(s, x) ==
  IF \E i \in 1..Len(s) : s[i] = x
    THEN (CHOOSE i \in 1..Len(s) : s[i] = x /\ \A j \in 1..(i - 1) : s[j] # x) - 1
    ELSE -1

\* Array.prototype.splice(start, deleteCount, ...items), 0 <= start <= length
Splice(s, start, deleteCount, items) ==
  SubSeq(s, 1, start) \o items \o SubSeq(s, start + deleteCount + 1, Len(s))

Range(s) == {s[i] : i \in 1..Len(s)}

----------------------------------------------------------------------------
(* class Wrapper: index and the mutations *)

\* faulty variant of index: 0 where the node is not found
index_notFound0(h, nodes) ==
  IF Len(nodes) > 0
    THEN LET n == nodes[1]
             p == h[n].parent
         IN  IF p # NoParent /\ hasChildren(h[p].node) /\ n \in {h[p].children[j] : j \in 1..Len(h[p].children)}
               THEN IndexOf(h[p].children, n) ELSE 0
    ELSE 0

\* Wrapper.index() without argument
index(h, nodes) ==
  IF Len(nodes) > 0
    THEN LET n == nodes[1]
             p == h[n].parent
         IN  IF p # NoParent /\ hasChildren(h[p].node)
               THEN IndexOf(h[p].children, n) ELSE -1
    ELSE -1

\* the outcome of a mutation's for-loop: the heap, the nodes spliced out, the
\* arguments the replace callback was called with, and whether a TypeError ended it
Outcome(h, rm, calls, threw) == [heap |-> h, removed |-> rm, calls |-> calls, threw |-> threw]

RECURSIVE after_atIndex(_, _, _, _)
\* faulty variant of after: splices the new node in at index i, in front of n
after_atIndex(st, nodes, k, arg) ==
  IF k > Len(nodes) THEN st
  ELSE LET n == nodes[k]
           p == st.heap[n].parent
       IN  IF p = NoParent THEN [st EXCEPT !.threw = TRUE]
           ELSE IF ~hasChildren(st.heap[p].node) THEN after_atIndex(st, nodes, k + 1, arg)
           ELSE LET i == index(st.heap, <<n>>)
                IN  IF i >= 0
                      THEN LET c == Create(st.heap, arg, p)
                               h == [c.heap EXCEPT ![p].children = Splice(@, i, 0, <<c.id>>)]
                           IN  after_atIndex([st EXCEPT !.heap = h], nodes, k + 1, arg)
                      ELSE after_atIndex(st, nodes, k + 1, arg)

RECURSIVE after(_, _, _, _)
\* Wrapper.after(node), from the k-th node of this.nodes on
after(st, nodes, k, arg) ==
  IF k > Len(nodes) THEN st
  ELSE LET n == nodes[k]
           p == st.heap[n].parent
       IN  IF p = NoParent THEN [st EXCEPT !.threw = TRUE]  \* undefined.hasChildren
           ELSE IF ~hasChildren(st.heap[p].node) THEN after(st, nodes, k + 1, arg)
           ELSE LET i == index(st.heap, <<n>>)
                IN  IF i >= 0
                      THEN LET c == Create(st.heap, arg, p)
                               h == [c.heap EXCEPT ![p].children = Splice(@, i + 1, 0, <<c.id>>)]
                           IN  after([st EXCEPT !.heap = h], nodes, k + 1, arg)
                      ELSE after(st, nodes, k + 1, arg)

RECURSIVE before(_, _, _, _)
\* Wrapper.before(node)
before(st, nodes, k, arg) ==
  IF k > Len(nodes) THEN st
  ELSE LET n == nodes[k]
           p == st.heap[n].parent
       IN  IF p = NoParent THEN [st EXCEPT !.threw = TRUE]
           ELSE IF ~hasChildren(st.heap[p].node) THEN before(st, nodes, k + 1, arg)
           ELSE LET i == IndexOf(st.heap[p].children, n)
                IN  IF i >= 0
                      THEN LET c == Create(st.heap, arg, p)
                               h == [c.heap EXCEPT ![p].children = Splice(@, i, 0, <<c.id>>)]
                           IN  before([st EXCEPT !.heap = h], nodes, k + 1, arg)
                      ELSE before(st, nodes, k + 1, arg)

RECURSIVE remove_nextSibling(_, _, _)
\* faulty variant of remove: splices out the sibling that follows n
remove_nextSibling(st, nodes, k) ==
  IF k > Len(nodes) THEN st
  ELSE LET n == nodes[k]
           p == st.heap[n].parent
       IN  IF p = NoParent THEN [st EXCEPT !.threw = TRUE]
           ELSE IF ~hasChildren(st.heap[p].node) THEN remove_nextSibling(st, nodes, k + 1)
           ELSE LET i == IndexOf(st.heap[p].children, n)
                IN  IF i >= 0
                      THEN LET h == [st.heap EXCEPT ![p].children = Splice(@, i + 1, 1, <<>>)]
                           IN  remove_nextSibling([st EXCEPT !.heap = h, !.removed = @ \cup {n}],
                                                  nodes, k + 1)
                      ELSE remove_nextSibling(st, nodes, k + 1)

RECURSIVE remove_live(_, _, _)
\* faulty variant of remove: this.nodes is the children array itself when it holds
\* the same nodes, so a splice moves the nodes the loop has yet to visit
remove_live(st, nodes, k) ==
  IF k > Len(nodes) THEN st
  ELSE LET n == nodes[k]
           p == st.heap[n].parent
       IN  IF p = NoParent THEN [st EXCEPT !.threw = TRUE]
           ELSE IF ~hasChildren(st.heap[p].node) THEN remove_live(st, nodes, k + 1)
           ELSE LET i == IndexOf(st.heap[p].children, n)
                IN  IF i >= 0
                      THEN LET h == [st.heap EXCEPT ![p].children = Splice(@, i, 1, <<>>)]
                           IN  remove_live([st EXCEPT !.heap = h, !.removed = @ \cup {n}],
                                           IF nodes = st.heap[p].children
                                             THEN h[p].children ELSE nodes,
                                           k + 1)
                      ELSE remove_live(st, nodes, k + 1)

RECURSIVE remove_fromRaw(_, _, _)
\* faulty variant of remove: the children array is the raw node's own value array,
\* so the splice shows in the raw node too
remove_fromRaw(st, nodes, k) ==
  IF k > Len(nodes) THEN st
  ELSE LET n == nodes[k]
           p == st.heap[n].parent
       IN  IF p = NoParent THEN [st EXCEPT !.threw = TRUE]
           ELSE IF ~hasChildren(st.heap[p].node) THEN remove_fromRaw(st, nodes, k + 1)
           ELSE LET i == IndexOf(st.heap[p].children, n)
                IN  IF i >= 0
                      THEN LET h == [st.heap EXCEPT ![p].children = Splice(@, i, 1, <<>>),
                                                    ![p].node.items = Splice(@, i, 1, <<>>)]
                           IN  remove_fromRaw([st EXCEPT !.heap = h, !.removed = @ \cup {n}],
                                              nodes, k + 1)
                      ELSE remove_fromRaw(st, nodes, k + 1)

RECURSIVE remove_toEnd(_, _, _)
\* faulty variant of remove: splice(i) without a delete count drops n and all
\* the siblings after it
remove_toEnd(st, nodes, k) ==
  IF k > Len(nodes) THEN st
  ELSE LET n == nodes[k]
           p == st.heap[n].parent
       IN  IF p = NoParent THEN [st EXCEPT !.threw = TRUE]
           ELSE IF ~hasChildren(st.heap[p].node) THEN remove_toEnd(st, nodes, k + 1)
           ELSE LET i == IndexOf(st.heap[p].children, n)
                IN  IF i >= 0
                      THEN LET h == [st.heap EXCEPT ![p].children = SubSeq(@, 1, i)]
                           IN  remove_toEnd([st EXCEPT !.heap = h, !.removed = @ \cup {n}],
                                            nodes, k + 1)
                      ELSE remove_toEnd(st, nodes, k + 1)

RECURSIVE remove(_, _, _)
\* Wrapper.remove()
remove(st, nodes, k) ==
  IF k > Len(nodes) THEN st
  ELSE LET n == nodes[k]
           p == st.heap[n].parent
       IN  IF p = NoParent THEN [st EXCEPT !.threw = TRUE]
           ELSE IF ~hasChildren(st.heap[p].node) THEN remove(st, nodes, k + 1)
           ELSE LET i == IndexOf(st.heap[p].children, n)
                IN  IF i >= 0
                      THEN LET h == [st.heap EXCEPT ![p].children = Splice(@, i, 1, <<>>)]
                           IN  remove([st EXCEPT !.heap = h, !.removed = @ \cup {n}],
                                      nodes, k + 1)
                      ELSE remove(st, nodes, k + 1)

\* the callbacks handed to replace: fn(n) for the Overlay node n
\*   const: (n) => raw      node: (n) => some Overlay node      self: (n) => n
\*   raw:   (n) => n.node   (the raw node the Overlay node wraps)
Apply(fn, h, n) ==
  CASE fn.kind = "const" -> RawArg(fn.raw)
    [] fn.kind = "raw"   -> RawArg(h[n].node)
    [] fn.kind = "node"  -> NodeArg(fn.id)
    [] fn.kind = "self"  -> NodeArg(n)

RECURSIVE replace_keepsOriginal(_, _, _, _)
\* faulty variant of replace: splice(i, 0, ...) leaves the original in the array
replace_keepsOriginal(st, nodes, k, fn) ==
  IF k > Len(nodes) THEN st
  ELSE LET n == nodes[k]
           p == st.heap[n].parent
       IN  IF p = NoParent THEN [st EXCEPT !.threw = TRUE]
           ELSE IF ~hasChildren(st.heap[p].node)
                  THEN replace_keepsOriginal(st, nodes, k + 1, fn)
           ELSE LET i == IndexOf(st.heap[p].children, n)
                IN  IF i >= 0
                      THEN LET c == Create(st.heap, Apply(fn, st.heap, n), p)
                               h == [c.heap EXCEPT ![p].children = Splice(@, i, 0, <<c.id>>)]
                           IN  replace_keepsOriginal(
                                 [st EXCEPT !.heap = h, !.removed = @ \cup {n},
                                            !.calls = Append(@, n)],
                                 nodes, k + 1, fn)
                      ELSE replace_keepsOriginal(st, nodes, k + 1, fn)

RECURSIVE replace(_, _, _, _)
\* Wrapper.replace(fn)
replace(st, nodes, k, fn) ==
  IF k > Len(nodes) THEN st
  ELSE LET n == nodes[k]
           p == st.heap[n].parent
       IN  IF p = NoParent THEN [st EXCEPT !.threw = TRUE]
           ELSE IF ~hasChildren(st.heap[p].node) THEN replace(st, nodes, k + 1, fn)
           ELSE LET i == IndexOf(st.heap[p].children, n)
                IN  IF i >= 0
                      THEN LET c == Create(st.heap, Apply(fn, st.heap, n), p)
                               h == [c.heap EXCEPT ![p].children = Splice(@, i, 1, <<c.id>>)]
                           IN  replace([st EXCEPT !.heap = h, !.removed = @ \cup {n},
                                                  !.calls = Append(@, n)],
                                       nodes, k + 1, fn)
                      ELSE replace(st, nodes, k + 1, fn)

----------------------------------------------------------------------------
(* Node.toJSON, Node.reduce and the selectors *)

\* faulty variant of Node.toJSON: serializes the raw node with its own child list
ToJSON_rawChildren(h, n) == h[n].node

RECURSIVE ToJSON(_, _), MapToJSON(_, _, _)
\* this.children.map((n) => n.toJSON())
MapToJSON(h, kids, i) ==
  IF i > Len(kids) THEN <<>> ELSE <<ToJSON(h, kids[i])>> \o MapToJSON(h, kids, i + 1)
\* Node.toJSON()
ToJSON(h, n) ==
  toJSON(h[n].node,
         IF hasChildren(h[n].node)
           THEN [present |-> TRUE, items |-> MapToJSON(h, h[n].children, 1)]
           ELSE [present |-> FALSE, items |-> <<>>])

RECURSIVE PostOrder(_, _), PostOrderAll(_, _, _)
\* the nodes in the order Node.reduce hands them to fn: the children's subtrees,
\* left to right, then the node itself
PostOrderAll(h, kids, i) ==
  IF i > Len(kids) THEN <<>> ELSE PostOrder(h, kids[i]) \o PostOrderAll(h, kids, i + 1)
PostOrder(h, n) ==
  IF hasChildren(h[n].node) THEN PostOrderAll(h, h[n].children, 1) \o <<n>> ELSE <<n>>

\* a selector: absent, or a string compared with the node's type
NoSelector == [kind |-> "none", str |-> ""]
StringSelector(t) == [kind |-> "string", str |-> t]
Selectors == {NoSelector} \cup {StringSelector(t) : t \in {"rule", "class"}}

\* a regular expression /str/ or /^str$/, and values that are no selector
RegExpSelector(src, anchored) == [kind |-> "regexp", str |-> src, anchored |-> anchored]
OtherSelectors == {[kind |-> k, str |-> ""] : k \in {"number", "object", "null"}}

\* RegExp.prototype.test for those expressions: t holds str, or is str
RegExpTest(selector, t) ==
  IF selector.anchored THEN t = selector.str
  ELSE \E i \in 1..(Len(t) - Len(selector.str) + 1) :
         SubSeq(t, i, i + Len(selector.str) - 1) = selector.str

\* a selector that is a function: getSelector returns it as it is.  The functions
\* of the model, each for a type t:
\*   hasWrapper: (n) => $(n).has(t)             hasLength: (n) => $(n).has(t).length() > 0
FunctionSelector(fn, t) == [kind |-> "function", str |-> t, fn |-> fn]
\* what such a function returns for the node it is handed, defined with has below
RECURSIVE CallSelector(_, _, _)
\* Array.prototype.filter and `if` take a result for true when it is truthy
Truthy(v) == v.isObject \/ v.bool

\* faulty variant of getSelector: a value that is no selector matches nothing
Matches_rejecting(selector, h, n) ==
  IF selector.kind = "string" THEN getType(h[n].node) = selector.str
  ELSE IF selector.kind = "regexp" THEN RegExpTest(selector, getType(h[n].node))
  ELSE IF selector.kind = "function" THEN Truthy(CallSelector(selector, h, n))
  ELSE selector.kind = "none"

\* getSelector(selector)(n), as the callers use it: the truth value of the result
Matches(selector, h, n) ==
  IF selector.kind = "string" THEN getType(h[n].node) = selector.str
  ELSE IF selector.kind = "regexp" THEN RegExpTest(selector, getType(h[n].node))
  ELSE IF selector.kind = "function" THEN Truthy(CallSelector(selector, h, n))
  ELSE TRUE

\* nodes.filter(selector)
Filter(h, nodes, selector) == SelectSeq(nodes, LAMBDA n : Matches(selector, h, n))

\* what n.parent of the root and an index past the end of an array give
Undefined == NoParent

RECURSIVE Uniq(_)
\* _.uniq: the first occurrence of every element, in order
Uniq(s) ==
  IF s = <<>> THEN <<>>
  ELSE LET r == Uniq(SubSeq(s, 1, Len(s) - 1))
           x == s[Len(s)]
       IN  IF x \in Range(r) THEN r ELSE Append(r, x)

\* what a traversal gives: the nodes of the new Wrapper, or an exception
Result(nodes) == [threw |-> FALSE, nodes |-> nodes]
Thrown == [threw |-> TRUE, nodes |-> <<>>]

RECURSIVE FlatMap(_, _, _)
\* _.flatMap(this.nodes, f) for f given as Op(n), a Result or Thrown per node
FlatMap(Op(_), nodes, k) ==
  IF k > Len(nodes) THEN Result(<<>>)
  ELSE LET r == Op(nodes[k])
       IN  IF r.threw THEN Thrown
           ELSE LET rest == FlatMap(Op, nodes, k + 1)
                IN  IF rest.threw THEN Thrown ELSE Result(r.nodes \o rest.nodes)

\* faulty variant of find: without _.uniq
find_noUniq(h, nodes, selector) ==
  LET Reduce(n) == Result(Filter(h, PostOrder(h, n), selector))
  IN  Result(FlatMap(Reduce, nodes, 1).nodes)

\* Wrapper.find(selector)
find(h, nodes, selector) ==
  LET Reduce(n) == Result(Filter(h, PostOrder(h, n), selector))
      r == FlatMap(Reduce, nodes, 1)
  IN  Result(Uniq(r.nodes))

\* $filter(nodes, selector) for nodes that may hold undefined.  A string or a
\* regular expression raises on it (undefined.node); a function is called with it;
\* where the selector keeps it, the Wrapper constructor raises ('Only Node
\* instances can be passed in to a Wrapper'); where a function drops it, the
\* other nodes are filtered as usual
FilterWithUndefined(h, nodes, selector) ==
  LET drops == selector.kind = "function" /\ ~Truthy(CallSelector(selector, h, Undefined))
  IN  IF (\E k \in 1..Len(nodes) : nodes[k] = Undefined) /\ ~drops THEN Thrown
      ELSE Result(Filter(h, SelectSeq(nodes, LAMBDA n : n # Undefined), selector))

\* Wrapper.next(selector): `index` is this.index(), the index of the first node
next(h, nodes, selector) ==
  LET i == index(h, nodes)
      Sibling(n) ==
        IF i < 0 THEN Result(<<>>)
        ELSE IF h[n].parent = NoParent THEN Thrown   \* undefined.children
        ELSE LET c == h[h[n].parent].children
             IN  IF i < Len(c) - 1 THEN Result(<<c[i + 2]>>) ELSE Result(<<>>)
      r == FlatMap(Sibling, nodes, 1)
  IN  IF r.threw THEN Thrown ELSE Result(Filter(h, r.nodes, selector))

\* Wrapper.prev(selector); an index past the end of n's siblings gives undefined,
\* which goes to $filter with the nodes
prev(h, nodes, selector) ==
  LET i == index(h, nodes)
      Sibling(n) ==
        IF i <= 0 THEN Result(<<>>)
        ELSE IF h[n].parent = NoParent THEN Thrown   \* undefined.children
        ELSE LET c == h[h[n].parent].children
             IN  IF i - 1 < Len(c) THEN Result(<<c[i]>>) ELSE Result(<<Undefined>>)
      r == FlatMap(Sibling, nodes, 1)
  IN  IF r.threw THEN Thrown ELSE FilterWithUndefined(h, r.nodes, selector)

\* Wrapper.value()
RECURSIVE value(_, _, _)
value(h, nodes, k) ==
  IF k > Len(nodes) THEN ""
  ELSE LET RECURSIVE Text(_, _)
           Text(po, j) == IF j > Len(po) THEN "" ELSE toString(h[po[j]].node) \o Text(po, j + 1)
       IN  Text(PostOrder(h, nodes[k]), 1) \o value(h, nodes, k + 1)

\* Wrapper.get(index): index is an integer or absent
NoIndex == -1
get(h, nodes, i) ==
  IF i # NoIndex
    THEN IF i < Len(nodes)
           THEN [threw |-> FALSE, isArray |-> FALSE, items |-> <<ToJSON(h, nodes[i + 1])>>]
           ELSE [threw |-> TRUE, isArray |-> FALSE, items |-> <<>>]  \* undefined.toJSON
    ELSE [threw |-> FALSE, isArray |-> TRUE, items |-> MapToJSON(h, nodes, 1)]

----------------------------------------------------------------------------
(* class Wrapper: the other traversals *)

\* new Wrapper(node) for a sequence of arguments: every one must be a Node instance
Wrapper(items) ==
  IF \A i \in 1..Len(items) : items[i].isNode
    THEN Result([i \in 1..Len(items) |-> items[i].id])
    ELSE Thrown    \* 'Only Node instances can be passed in to a Wrapper'

\* an index argument: an integer, or something that is not one (absent included)
IntegerArg(i) == [isInteger |-> TRUE, n |-> i]
NotAnInteger == [isInteger |-> FALSE, n |-> 0]

\* faulty variant of eq: a negative index counts from the end
eq_fromEnd(h, nodes, a) ==
  IF ~a.isInteger THEN Thrown
  ELSE IF a.n >= 0 /\ a.n < Len(nodes) THEN Result(<<nodes[a.n + 1]>>)
  ELSE IF a.n < 0 /\ -a.n <= Len(nodes) THEN Result(<<nodes[Len(nodes) + a.n + 1]>>)
  ELSE Result(<<>>)

\* Wrapper.eq(index): $(this.nodes[index] || [], this)
eq(h, nodes, a) ==
  IF ~a.isInteger THEN Thrown    \* 'eq() requires an index'
  ELSE IF a.n >= 0 /\ a.n < Len(nodes) THEN Result(<<nodes[a.n + 1]>>)
  ELSE Result(<<>>)

\* Wrapper.first()
first(h, nodes) == eq(h, nodes, IntegerArg(0))
\* Wrapper.last()
last_(h, nodes) == eq(h, nodes, IntegerArg(Len(nodes) - 1))

\* Wrapper.has(selector)
has(h, nodes, selector) ==
  Result(SelectSeq(nodes, LAMBDA n : Len(find(h, <<n>>, selector).nodes) > 0))

\* what a function selector returns: a Wrapper (an object) or a boolean; $(n) is
\* the Wrapper of the root when n is undefined
CallSelector(selector, h, n) ==
  LET w == has(h, <<IF n = Undefined THEN ROOT ELSE n>>, StringSelector(selector.str))
  IN  IF selector.fn = "hasWrapper"
        THEN [isObject |-> TRUE, bool |-> FALSE, nodes |-> w.nodes]
        ELSE [isObject |-> FALSE, bool |-> Len(w.nodes) > 0, nodes |-> <<>>]

\* Wrapper.filter(selector)
filter(h, nodes, selector) == Result(Filter(h, nodes, selector))

\* Wrapper.parent(selector): n.parent of the root is undefined, which goes to
\* $filter with the other parents
parent(h, nodes, selector) ==
  FilterWithUndefined(h, [k \in 1..Len(nodes) |-> h[nodes[k]].parent], selector)

RECURSIVE Ancestors(_, _)
\* let parent = n.parent; while (parent) { parents.push(parent); parent = parent.parent }
Ancestors(h, n) ==
  IF h[n].parent = NoParent THEN <<>> ELSE <<h[n].parent>> \o Ancestors(h, h[n].parent)

\* faulty variant of parents: without _.uniq
parents_noUniq(h, nodes, selector) ==
  LET Walk(n) == Result(Ancestors(h, n))
  IN  Result(Filter(h, FlatMap(Walk, nodes, 1).nodes, selector))

\* Wrapper.parents(selector)
parents(h, nodes, selector) ==
  LET Walk(n) == Result(Ancestors(h, n))
  IN  Result(Filter(h, Uniq(FlatMap(Walk, nodes, 1).nodes), selector))

RECURSIVE AncestorsUntil(_, _, _), AncestorsThrough(_, _, _)
\* while (parent && !selector(parent)) { parents.push(parent); parent = parent.parent }
AncestorsUntil(h, n, selector) ==
  LET p == h[n].parent
  IN  IF p = NoParent \/ Matches(selector, h, p) THEN <<>>
      ELSE <<p>> \o AncestorsUntil(h, p, selector)
\* the same walk that also takes the ancestor it stops at
AncestorsThrough(h, n, selector) ==
  LET p == h[n].parent
  IN  IF p = NoParent THEN <<>>
      ELSE IF Matches(selector, h, p) THEN <<p>>
      ELSE <<p>> \o AncestorsThrough(h, p, selector)

\* faulty variant of parentsUntil: up to and including the matching ancestor
parentsUntil_inclusive(h, nodes, selector) ==
  LET Walk(n) == Result(AncestorsThrough(h, n, selector))
  IN  Result(Uniq(FlatMap(Walk, nodes, 1).nodes))

\* Wrapper.parentsUntil(selector)
parentsUntil(h, nodes, selector) ==
  LET Walk(n) == Result(AncestorsUntil(h, n, selector))
  IN  Result(Uniq(FlatMap(Walk, nodes, 1).nodes))

RECURSIVE Closest(_, _, _)
\* let parent = n; while (parent) { if (selector(parent)) break; parent = parent.parent }
\* return parent || []
Closest(h, n, selector) ==
  IF n = NoParent THEN <<>>
  ELSE IF Matches(selector, h, n) THEN <<n>>
  ELSE Closest(h, h[n].parent, selector)

\* faulty variant of closest: the walk starts at the parent
closest_fromParent(h, nodes, selector) ==
  LET Walk(n) == Result(Closest(h, h[n].parent, selector))
  IN  Result(Uniq(FlatMap(Walk, nodes, 1).nodes))

\* Wrapper.closest(selector)
closest(h, nodes, selector) ==
  LET Walk(n) == Result(Closest(h, n, selector))
  IN  Result(Uniq(FlatMap(Walk, nodes, 1).nodes))

\* Wrapper.children(selector)
children(h, nodes, selector) ==
  LET Kids(n) == Result(IF hasChildren(h[n].node) THEN h[n].children ELSE <<>>)
  IN  Result(Filter(h, FlatMap(Kids, nodes, 1).nodes, selector))

\* Wrapper.nextAll(selector): `index` is this.index(), the index of the first node
nextAll(h, nodes, selector) ==
  LET i == index(h, nodes)
      Siblings(n) ==
        IF i < 0 THEN Result(<<>>)
        ELSE IF h[n].parent = NoParent THEN Thrown   \* undefined.children
        ELSE LET c == h[h[n].parent].children
             IN  IF i < Len(c) - 1 THEN Result(SubSeq(c, i + 2, Len(c))) ELSE Result(<<>>)
      r == FlatMap(Siblings, nodes, 1)
  IN  IF r.threw THEN Thrown ELSE Result(Filter(h, r.nodes, selector))

\* _.take(array, n)
Take(s, n) == SubSeq(s, 1, IF n < Len(s) THEN n ELSE Len(s))
\* Array.prototype.reverse
Reverse(s) == [k \in 1..Len(s) |-> s[Len(s) + 1 - k]]

\* faulty variant of prevAll: without reverse()
prevAll_forward(h, nodes, selector) ==
  LET i == index(h, nodes)
      Siblings(n) ==
        IF i <= 0 THEN Result(<<>>)
        ELSE IF h[n].parent = NoParent THEN Thrown
        ELSE Result(Take(h[h[n].parent].children, i))
      r == FlatMap(Siblings, nodes, 1)
  IN  IF r.threw THEN Thrown ELSE Result(Filter(h, r.nodes, selector))

\* Wrapper.prevAll(selector)
prevAll(h, nodes, selector) ==
  LET i == index(h, nodes)
      Siblings(n) ==
        IF i <= 0 THEN Result(<<>>)
        ELSE IF h[n].parent = NoParent THEN Thrown   \* undefined.children
        ELSE Result(Reverse(Take(h[h[n].parent].children, i)))
      r == FlatMap(Siblings, nodes, 1)
  IN  IF r.threw THEN Thrown ELSE Result(Filter(h, r.nodes, selector))

\* a number returned, or an exception
Number(i) == [threw |-> FALSE, isArray |-> FALSE, items |-> <<i>>]
NoNumber == [threw |-> TRUE, isArray |-> FALSE, items |-> <<>>]

\* Wrapper.index(selector) for a string selector
indexOfSelector(h, nodes, selector) ==
  IF Len(nodes) = 0 THEN NoNumber                 \* undefined.parent
  ELSE LET n == nodes[1]
           p == h[n].parent
       IN  IF p = NoParent THEN NoNumber          \* undefined.hasChildren
           ELSE IF ~hasChildren(h[p].node) THEN Number(-1)
           ELSE Number(IndexOf(Filter(h, h[p].children, selector), n))

----------------------------------------------------------------------------
(* createQuery(ast, options): validation *)

\* values handed as `ast` that are not plain objects
NotPlainObjects ==
  {[jsType |-> t] : t \in {"undefined", "null", "array", "string", "instance"}}
\* _.isPlainObject
isPlainObject(v) == "jsType" \notin DOMAIN v

\* the options in the order the for-loop checks them
OptionKeys == <<"hasChildren", "getChildren", "getType", "toJSON", "toString">>
\* the functions a caller gives for an option:
\*   noop:  function () {}     (returns undefined)
\*   never: () => false
\*   same:  a function that does what the default of that option does
OptionFunctions == {"noop", "never", "same"}
\* what a caller gives for an option: nothing, a function, or something else
OptionValues == {"undefined", "null", "string"} \cup OptionFunctions
\* _.defaults({}, options, {...}): an undefined option takes its default
defaults(options) ==
  [k \in DOMAIN options |-> IF options[k] = "undefined" THEN "default" ELSE options[k]]
\* _.isFunction
isFunction(v) == v \in OptionFunctions \cup {"default"}

Created(h, o) == [threw |-> FALSE, message |-> "", heap |-> h, options |-> o]
Rejected(m) == [threw |-> TRUE, message |-> m, heap |-> <<>>, options |-> <<>>]

\* ROOT = Node.create(ast) with the options o the session works with.  The Node
\* constructor calls o.hasChildren(node) and, where that is truthy,
\* o.getChildren(node).map(...): the result of noop (undefined) and of never (false)
\* is falsy as an answer of hasChildren, and has no map as an answer of getChildren,
\* which raises a TypeError (the message is the engine's, the model keeps the type)
CreateRoot(a, o) ==
  IF o.hasChildren \in {"noop", "never"}
    THEN Created(<< [node |-> a, parent |-> NoParent, children |-> <<>>] >>, o)
  ELSE IF hasChildren(a) /\ o.getChildren \in {"noop", "never"}
    THEN Rejected("TypeError")
  ELSE Created(NewNode(<<>>, a, NoParent), o)

\* faulty variant of createQuery: the for-loop leaves out toString
createQuery_skipsToString(a, options) ==
  IF ~isPlainObject(a) THEN Rejected("\"ast\" must be a plain object")
  ELSE LET o   == defaults(options)
           bad == {i \in 1..(Len(OptionKeys) - 1) : ~isFunction(o[OptionKeys[i]])}
       IN  IF bad # {}
             THEN LET i == CHOOSE i \in bad : \A j \in bad : i <= j
                  IN  Rejected("options." \o OptionKeys[i] \o " must be a function")
             ELSE CreateRoot(a, o)

\* module.exports = (ast, options) => { ... }: the checks, then ROOT = Node.create(ast)
createQuery(a, options) ==
  IF ~isPlainObject(a) THEN Rejected("\"ast\" must be a plain object")
  ELSE LET o   == defaults(options)
           bad == {i \in 1..Len(OptionKeys) : ~isFunction(o[OptionKeys[i]])}
       IN  IF bad # {}
             THEN LET i == CHOOSE i \in bad : \A j \in bad : i <= j
                  IN  Rejected("options." \o OptionKeys[i] \o " must be a function")
             ELSE CreateRoot(a, o)

----------------------------------------------------------------------------
(* The session *)

NoArg == [kind |-> "none", str |-> ""]
\* the last call: its name and argument, whether it raised, the Overlay nodes a
\* replace callback was called with, and the heap it started from
Call(op, arg, threw, calls) ==
  [op |-> op, arg |-> arg, threw |-> threw, calls |-> calls, pre |-> heap]

\* `out` is what the last call returned when that is JSON (get), and this otherwise
NoOutput == [threw |-> FALSE, isArray |-> TRUE, items |-> <<>>]

InitWith(trees) ==
  /\ ast \in trees
  /\ heap = NewNode(<<>>, ast, NoParent)
  /\ removed = {}
  /\ sel = <<ROOT>>
  /\ last = [op |-> "none", arg |-> NoArg, threw |-> FALSE, calls |-> <<>>, pre |-> <<>>]
  /\ out = NoOutput
  /\ handed = 0

Init == InitWith(Asts)

Nodes == 1..Len(heap)

\* the session stays within the bounds of the model
Fits(h) == Len(h) <= Len(NewNode(<<>>, ast, NoParent)) + MaxNew

\* $(node): the query function; no argument gives the root
Query ==
  \E nodes \in {<<ROOT>>} \cup UNION {[1..k -> Nodes] : k \in 0..MaxSel} :
    /\ sel' = nodes
    /\ last' = Call("query", NoArg, FALSE, <<>>)
    /\ out' = NoOutput /\ UNCHANGED <<ast, heap, removed, handed>>

\* the session follows selections that are no longer than the overlay has nodes
FitsSelection(nodes) == Len(nodes) <= Len(heap)

\* faulty variant of a traversal: the new Wrapper is made of the receiver's own
\* array, filtered in place, so that the receiver holds the result too
Traversal_inPlace(op, selector, r) ==
  /\ FitsSelection(r.nodes)
  /\ sel' = IF r.threw THEN sel ELSE r.nodes
  /\ last' = Call(op, selector, r.threw, <<>>)
               @@ [prevWrapper |-> IF r.threw THEN sel ELSE r.nodes]
  /\ out' = NoOutput /\ UNCHANGED <<ast, heap, removed, handed>>

\* a traversal of the current Wrapper: $(nodes, this), the new Wrapper, becomes the
\* current one; last.prevWrapper is the node sequence of its prevWrapper, which is
\* the receiver
Traversal(op, selector, r) ==
  /\ FitsSelection(r.nodes)
  /\ sel' = IF r.threw THEN sel ELSE r.nodes
  /\ last' = Call(op, selector, r.threw, <<>>) @@ [prevWrapper |-> sel]
  /\ out' = NoOutput /\ UNCHANGED <<ast, heap, removed, handed>>

Find == \E s \in Selectors : Traversal("find", s, find(heap, sel, s))
NextSibling == \E s \in Selectors : Traversal("next", s, next(heap, sel, s))
PrevSibling == \E s \in Selectors : Traversal("prev", s, prev(heap, sel, s))

\* get() on the current Wrapper
GetAll ==
  /\ out' = get(heap, sel, NoIndex)
  /\ last' = Call("get", NoArg, out'.threw, <<>>)
  /\ UNCHANGED <<ast, heap, removed, sel, handed>>
\* get(0) on the current Wrapper
GetFirst ==
  /\ out' = get(heap, sel, 0)
  /\ last' = Call("get", [kind |-> "index", str |-> ""], out'.threw, <<>>)
  /\ UNCHANGED <<ast, heap, removed, sel, handed>>

\* a mutation call on the current Wrapper that leaves the overlay with at most
\* `room` nodes more than it started with; it returns `this`
MutationWithin(room, op, arg, st) ==
  /\ Len(st.heap) <= Len(NewNode(<<>>, ast, NoParent)) + room
  /\ heap' = st.heap
  /\ removed' = st.removed
  /\ last' = Call(op, arg, st.threw, st.calls)
  /\ out' = NoOutput
  /\ UNCHANGED <<ast, sel>>

\* a mutation call on the current Wrapper; it returns `this`
Mutation(op, arg, st) ==
  /\ Fits(st.heap)
  /\ MutationWithin(MaxNew, op, arg, st)

Start == Outcome(heap, removed, <<>>, FALSE)

After ==
  \E x \in RawArgs :
    Mutation("after", RawArg(x), after(Start, sel, 1, RawArg(x))) /\ UNCHANGED handed
Before ==
  \E x \in RawArgs :
    Mutation("before", RawArg(x), before(Start, sel, 1, RawArg(x))) /\ UNCHANGED handed
Remove ==
  Mutation("remove", NoArg, remove(Start, sel, 1)) /\ UNCHANGED handed
RawCallbacks == {[kind |-> "const", raw |-> RawZ], [kind |-> "raw"]}
Replace ==
  \E fn \in RawCallbacks :
    Mutation("replace", fn, replace(Start, sel, 1, fn)) /\ UNCHANGED handed

\* the same calls handed an existing Overlay node
Handed == handed < MaxHanded /\ handed' = handed + 1
AfterNode ==
  \E m \in Nodes :
    Mutation("after", NodeArg(m), after(Start, sel, 1, NodeArg(m))) /\ Handed
BeforeNode ==
  \E m \in Nodes :
    Mutation("before", NodeArg(m), before(Start, sel, 1, NodeArg(m))) /\ Handed
NodeCallbacks == {[kind |-> "node", id |-> m] : m \in Nodes} \cup {[kind |-> "self"]}
ReplaceNode ==
  \E fn \in NodeCallbacks :
    Mutation("replace", fn, replace(Start, sel, 1, fn)) /\ Handed

\* the query function handed raw nodes, alone or among Overlay nodes
QueryItems ==
  LET args == {NodeArg(n) : n \in Nodes} \cup {RawArg(r) : r \in {ast, RawZ}}
  IN  UNION {[1..k -> args] : k \in 1..MaxSel}
QueryRaw ==
  \E items \in QueryItems :
    /\ \E i \in 1..Len(items) : ~items[i].isNode
    /\ Traversal("query", [kind |-> "items", items |-> items], Wrapper(items))

\* find with the types of the README's tree
ItemSelectors == {StringSelector(t) : t \in {"item", "item_container"}}
FunctionSelectors == {FunctionSelector(fn, "item") : fn \in {"hasWrapper", "hasLength"}}
FindItems ==
  \E s \in ItemSelectors \cup FunctionSelectors : Traversal("find", s, find(heap, sel, s))

StringSelectors == {s \in Selectors : s.kind = "string"}

Has == \E s \in Selectors : Traversal("has", s, has(heap, sel, s))
RegExpSelectors == {RegExpSelector("item", a) : a \in BOOLEAN}
FilterBy ==
  \E s \in StringSelectors \cup FunctionSelectors \cup ItemSelectors
            \cup RegExpSelectors \cup OtherSelectors \cup {NoSelector} :
    Traversal("filter", s, filter(heap, sel, s))
Parent ==
  \E s \in Selectors \cup FunctionSelectors : Traversal("parent", s, parent(heap, sel, s))
Parents == \E s \in Selectors : Traversal("parents", s, parents(heap, sel, s))
\* the selectors of the walks towards the root: the type of the root is one of them
UpSelectors == Selectors \cup {StringSelector("stylesheet")}
ParentsUntil ==
  \E s \in UpSelectors : Traversal("parentsUntil", s, parentsUntil(heap, sel, s))
ClosestTo == \E s \in UpSelectors : Traversal("closest", s, closest(heap, sel, s))

Children == \E s \in Selectors : Traversal("children", s, children(heap, sel, s))
NextAll == \E s \in Selectors : Traversal("nextAll", s, nextAll(heap, sel, s))
PrevAll == \E s \in Selectors : Traversal("prevAll", s, prevAll(heap, sel, s))

\* eq with every kind of argument
EqArgs == {IntegerArg(i) : i \in (-Len(heap))..Len(heap)} \cup {NotAnInteger}
Eq == \E a \in EqArgs : Traversal("eq", a, eq(heap, sel, a))
First == Traversal("first", NoArg, first(heap, sel))
Last == Traversal("last", NoArg, last_(heap, sel))

\* index(selector) on the current Wrapper
IndexOfSelector ==
  \E s \in StringSelectors :
    /\ out' = indexOfSelector(heap, sel, s)
    /\ last' = Call("index", s, out'.threw, <<>>)
    /\ UNCHANGED <<ast, heap, removed, sel, handed>>

\* a session that mutates the tree with raw nodes
Next == Query \/ Find \/ GetFirst \/ After \/ Before \/ Remove \/ Replace

Spec == Init /\ [][Next]_vars

\* a session that only reads
InitRead == InitWith(AstsRead)

NextRead ==
  \/ Query \/ QueryRaw \/ Find \/ FindItems \/ NextSibling \/ PrevSibling \/ GetAll \/ GetFirst
  \/ Has \/ FilterBy \/ Parent \/ Parents \/ ParentsUntil \/ ClosestTo
  \/ Eq \/ First \/ Last \/ IndexOfSelector
  \/ Children \/ NextAll \/ PrevAll

SpecRead == InitRead /\ [][NextRead]_vars

\* the creation of a session from its arguments
InitCreate ==
  /\ ast \in AstsRead \cup NotPlainObjects
  /\ heap = <<>>
  /\ removed = {}
  /\ sel = <<>>
  /\ last = [op |-> "none", arg |-> NoArg, threw |-> FALSE, calls |-> <<>>, pre |-> <<>>]
  /\ out = NoOutput
  /\ handed = 0

\* createQuery(ast, options); `out` holds the message of the error, or the options
\* the session works with
CreateQuery ==
  /\ last.op = "none"
  /\ \E options \in [Range(OptionKeys) -> OptionValues] :
       LET r == createQuery(ast, options)
       IN  /\ heap' = r.heap
           /\ sel' = IF r.threw THEN <<>> ELSE <<ROOT>>
           /\ last' = Call("createQuery", [kind |-> "options", options |-> options],
                           r.threw, <<>>)
           /\ out' = [threw |-> r.threw, isArray |-> FALSE,
                      items |-> IF r.threw THEN <<r.message>> ELSE <<r.options>>]
  /\ UNCHANGED <<ast, removed, handed>>

NextCreate == CreateQuery

SpecCreate == InitCreate /\ [][NextCreate]_vars

\* a session that hands existing Overlay nodes to the mutations

\* sessions that select whole children arrays and mutate them: $(), children()
\* and first() lead to the selections, the mutations take raw nodes
InitChildren == InitWith({AstFlat, AstNested})
QueryRoot ==
  /\ sel' = <<ROOT>>
  /\ last' = Call("query", NoArg, FALSE, <<>>)
  /\ out' = NoOutput /\ UNCHANGED <<ast, heap, removed, handed>>
AfterEach ==
  \E x \in RawArgs :
    MutationWithin(MaxGrown, "after", RawArg(x), after(Start, sel, 1, RawArg(x)))
      /\ UNCHANGED handed
BeforeEach ==
  \E x \in RawArgs :
    MutationWithin(MaxGrown, "before", RawArg(x), before(Start, sel, 1, RawArg(x)))
      /\ UNCHANGED handed
RemoveEach ==
  MutationWithin(MaxGrown, "remove", NoArg, remove(Start, sel, 1)) /\ UNCHANGED handed
ReplaceEach ==
  \E fn \in RawCallbacks :
    MutationWithin(MaxGrown, "replace", fn, replace(Start, sel, 1, fn)) /\ UNCHANGED handed
NextChildren ==
  QueryRoot \/ Children \/ First
    \/ AfterEach \/ BeforeEach \/ RemoveEach \/ ReplaceEach

SpecChildren == InitChildren /\ [][NextChildren]_vars

NextNodeArgs == Query \/ Remove \/ AfterNode \/ BeforeNode \/ ReplaceNode

SpecNodeArgs == Init /\ [][NextNodeArgs]_vars

----------------------------------------------------------------------------
(* Vocabulary of the properties *)

Mutations == {"after", "before", "remove", "replace"}

\* n occupies a position of its parent's children array
AttachedIn(h, n) == h[n].parent # NoParent /\ n \in Range(h[h[n].parent].children)

\* every node of the selection had a parent when the last call started
AllHaveParent == \A k \in 1..Len(sel) : last.pre[sel[k]].parent # NoParent

\* the nodes of the last call's heap, and the nodes the call constructed
Old == 1..Len(last.pre)
IsNew(n) == n > Len(last.pre)

\* how often n occurs in the children arrays of the overlay
Occurrences(h, n) ==
  Cardinality({pi \in (1..Len(h)) \X (1..Len(h)) :
                 pi[2] <= Len(h[pi[1]].children) /\ h[pi[1]].children[pi[2]] = n})

\* the number of entries of a selection that satisfy P
RECURSIVE Count(_, _, _)
Count(P(_), nodes, k) ==
  IF k > Len(nodes) THEN 0 ELSE (IF P(nodes[k]) THEN 1 ELSE 0) + Count(P, nodes, k + 1)

\* a tree as the list of <<depth, type, is-array, text>> of its nodes in document
\* order, read off a JSON value and read off the overlay
RECURSIVE JsonShape(_, _), JsonShapes(_, _, _)
JsonShapes(items, i, d) ==
  IF i > Len(items) THEN <<>> ELSE JsonShape(items[i], d) \o JsonShapes(items, i + 1, d)
JsonShape(j, d) ==
  << <<d, j.type, j.isArray, IF j.isArray THEN "" ELSE j.string>> >>
    \o (IF j.isArray THEN JsonShapes(j.items, 1, d + 1) ELSE <<>>)
RECURSIVE OverlayShape(_, _, _), OverlayShapes(_, _, _, _)
OverlayShapes(h, kids, i, d) ==
  IF i > Len(kids) THEN <<>>
  ELSE OverlayShape(h, kids[i], d) \o OverlayShapes(h, kids, i + 1, d)
OverlayShape(h, n, d) ==
  << <<d, h[n].node.type, h[n].node.isArray,
       IF h[n].node.isArray THEN "" ELSE h[n].node.string>> >>
    \o (IF h[n].node.isArray THEN OverlayShapes(h, h[n].children, 1, d + 1) ELSE <<>>)

----------------------------------------------------------------------------
(* C1 *)

\* C1: after any sequence of after / before / remove / replace calls, every Overlay
\* node that has a parent and was not itself removed or replaced is in its parent's
\* children array, at the index $(n).index() returns.
C1_ParentHoldsChild ==
  \A n \in Nodes :
    (heap[n].parent # NoParent /\ n \notin removed) =>
      LET i == index(heap, <<n>>)
      IN  i >= 0 /\ heap[heap[n].parent].children[i + 1] = n

\* a session that inserted a node and removed another one
C1_Witness ==
  /\ last.op \in Mutations
  /\ removed # {}
  /\ \E n \in Nodes : n > Len(NewNode(<<>>, ast, NoParent)) /\ n \notin removed
                      /\ AttachedIn(heap, n)

----------------------------------------------------------------------------
(* C2 *)

\* C2: after any single after / before / remove / replace call, whatever its
\* argument (raw node or existing Overlay node), no Overlay node occurs more than
\* once across all children arrays.
C2_NoDuplicateChild ==
  last.op \in Mutations => \A n \in Nodes : Occurrences(heap, n) <= 1

----------------------------------------------------------------------------
(* C3 *)

\* the call of `last` made again on the heap it started from, for other nodes
Redo(nodes) ==
  LET st == Outcome(last.pre, {}, <<>>, FALSE)
  IN  CASE last.op = "after"   -> after(st, nodes, 1, last.arg)
        [] last.op = "before"  -> before(st, nodes, 1, last.arg)
        [] last.op = "remove"  -> remove(st, nodes, 1)
        [] last.op = "replace" -> replace(st, nodes, 1, last.arg)

\* C3: a mutation applied to a selection that holds a node without parent (the
\* root) skips that node silently: no error is raised, and the overlay ends as if
\* the call had been made on the other nodes of the selection alone.
C3_RootSkipped ==
  (last.op \in Mutations /\ \E k \in 1..Len(sel) : last.pre[sel[k]].parent = NoParent) =>
     /\ ~last.threw
     /\ heap = Redo(SelectSeq(sel, LAMBDA n : last.pre[n].parent # NoParent)).heap

----------------------------------------------------------------------------
(* C4 *)

\* the entries of the selection that the call of `last` found in their parent p
Processed(p) ==
  Count(LAMBDA n : last.pre[n].parent = p /\ AttachedIn(last.pre, n), sel, 1)

\* the post-order walk of parent p after the call is the walk before it with the
\* walk of the new node m put right after (right before) the subtree of n
MeetsAt(p, n, m) ==
  LET po == PostOrder(last.pre, p)
      j  == IndexOf(po, n) + 1
      at == IF last.op = "after" THEN j ELSE j - Len(PostOrder(last.pre, n))
  IN  PostOrder(heap, p) = SubSeq(po, 1, at) \o PostOrder(heap, m) \o SubSeq(po, at + 1, Len(po))

\* C4: (selections of nodes that have a parent) for each node n that sits at index i of its parent p's
\* children, after(x) puts a newly wrapped node for x, with parent p, at index i+1
\* and before(x) puts it at index i; p.children grows by one per such n, the
\* children already there keep their order, and a later find() meets the inserted
\* subtree at that place of the document.
C4_InsertsBeside ==
  (last.op \in {"after", "before"} /\ AllHaveParent) =>
    LET h0 == last.pre
        d  == IF last.op = "after" THEN 1 ELSE -1
    IN  /\ ~last.threw
        /\ \A p \in Old :
             /\ Len(heap[p].children) = Len(h0[p].children) + Processed(p)
             /\ SelectSeq(heap[p].children, LAMBDA c : ~IsNew(c)) = h0[p].children
        /\ \A k \in 1..Len(sel) :
             AttachedIn(h0, sel[k]) =>
               LET n == sel[k]
                   p == h0[n].parent
                   i == IndexOf(heap[p].children, n)
                   m == heap[p].children[i + 1 + d]
               IN  /\ i + 1 + d \in 1..Len(heap[p].children)
                   /\ IsNew(m)
                   /\ heap[m].parent = p
                   /\ heap[m].node = last.arg.raw
                   /\ ToJSON(heap, m) = last.arg.raw
                   /\ Len(sel) = 1 =>
                        /\ IndexOf(heap[p].children, m)
                             = IndexOf(h0[p].children, n) + (IF d = 1 THEN 1 ELSE 0)
                        /\ MeetsAt(p, n, m)

\* .z inserted after .g of .r .g .b : find('class').value() is 'rgzb'
C4_Witness ==
  /\ last.op = "after" /\ ~last.threw
  /\ ast = AstFlat
  /\ value(heap, find(heap, <<ROOT>>, StringSelector("class")).nodes, 1) = "rgzb"

----------------------------------------------------------------------------
(* C5 *)

\* the nodes of the subtrees the call of `last` detached
Detached ==
  UNION {Range(PostOrder(last.pre, sel[k])) :
           k \in {j \in 1..Len(sel) : AttachedIn(last.pre, sel[j])}}

\* C5: (selections of nodes that have a parent) remove() splices each node out of its parent's children array and
\* does nothing else: the other siblings keep their order, and a later find over
\* the tree gives the earlier results without the removed nodes and their
\* descendants.
C5_RemoveSplicesOut ==
  (last.op = "remove" /\ AllHaveParent) =>
    /\ ~last.threw
    /\ Len(heap) = Len(last.pre)
    /\ \A p \in Nodes :
         /\ heap[p].node = last.pre[p].node
         /\ heap[p].parent = last.pre[p].parent
         /\ heap[p].children = SelectSeq(last.pre[p].children, LAMBDA c : c \notin Range(sel))
    /\ \A s \in Selectors :
         find(heap, <<ROOT>>, s).nodes
           = SelectSeq(find(last.pre, <<ROOT>>, s).nodes, LAMBDA n : n \notin Detached)

\* the 2nd of three siblings was removed: the 1st and the 3rd are left
C5_Witness ==
  /\ last.op = "remove" /\ ~last.threw
  /\ ast = AstFlat
  /\ last.pre[ROOT].children = <<2, 3, 4>>
  /\ heap[ROOT].children = <<2, 4>>

----------------------------------------------------------------------------
(* C6 *)

\* C6: (selections of nodes that have a parent) replace(fn) calls fn once per
\* selected node that sits in its parent's children, with the Overlay node, and puts the wrapped result at the index of
\* the original, which it removes: every children array keeps its length and
\* every other sibling its position.
C6_ReplaceInPlace ==
  (last.op = "replace" /\ AllHaveParent) =>
    LET h0 == last.pre
    IN  /\ ~last.threw
        /\ last.calls = Uniq(SelectSeq(sel, LAMBDA n : AttachedIn(h0, n)))
        /\ \A p \in Old :
             /\ Len(heap[p].children) = Len(h0[p].children)
             /\ \A j \in 1..Len(h0[p].children) :
                  LET n == h0[p].children[j]
                      m == heap[p].children[j]
                  IN  IF n \in Range(last.calls)
                        THEN /\ IsNew(m)
                             /\ heap[m].parent = p
                             /\ heap[m].node = Apply(last.arg, h0, n).raw
                             /\ n \notin Range(heap[p].children)
                        ELSE m = n

\* the 1st of three siblings was replaced
C6_Witness ==
  /\ last.op = "replace" /\ ~last.threw
  /\ ast = AstFlat
  /\ last.calls = <<2>>
  /\ heap[ROOT].children = <<5, 3, 4>>

----------------------------------------------------------------------------
(* C7 *)

\* C7: after any sequence of mutations get(0) returns the modified tree: the JSON
\* of a node is built from the overlay's current children (inserted nodes present
\* at their place, removed nodes absent, replaced nodes substituted), not from the
\* raw node's own child list.
C7_GetReadsOverlay ==
  (last.op = "get" /\ last.arg.kind = "index" /\ sel # <<>>) =>
    /\ ~last.threw
    /\ JsonShape(out.items[1], 0) = OverlayShape(heap, sel[1], 0)

\* $().get(0) after a removal and an insertion
C7_Witness ==
  /\ last.op = "get" /\ ~last.threw /\ ~out.isArray
  /\ sel = <<ROOT>>
  /\ removed # {}
  /\ Len(heap) > Len(NewNode(<<>>, ast, NoParent))
  /\ out.items[1] # ast

----------------------------------------------------------------------------
(* C8 *)

\* C8: round trip: on a tree that was not mutated, $().get() is a one-element
\* sequence whose element, which is $().get(0), deep-equals the raw tree.
C8_RoundTrip ==
  (last.op = "get" /\ sel = <<ROOT>> /\ heap = NewNode(<<>>, ast, NoParent)) =>
    /\ ~last.threw
    /\ out.items = <<ast>>
    /\ out.isArray <=> last.arg.kind = "none"

\* $().get() on the tree with a rule nested in a rule
C8_Witness ==
  /\ last.op = "get" /\ sel = <<ROOT>> /\ out.isArray
  /\ ast = AstDeep
  /\ out.items = <<AstDeep>>

----------------------------------------------------------------------------
(* C9 *)

RECURSIVE SiblingsAt(_, _, _, _, _)
\* for each node in selection order, the sibling d places further with its selector
SiblingsAt(h, nodes, k, d, selector) ==
  IF k > Len(nodes) THEN <<>>
  ELSE LET n == nodes[k]
           c == IF h[n].parent = NoParent THEN <<>> ELSE h[h[n].parent].children
           j == IndexOf(c, n) + 1 + d
       IN  (IF IndexOf(c, n) >= 0 /\ j \in 1..Len(c) /\ Matches(selector, h, c[j])
              THEN <<c[j]>> ELSE <<>>)
           \o SiblingsAt(h, nodes, k + 1, d, selector)

\* C9: for a selection of any size, next(sel) gives for each node, in selection
\* order, the sibling right after it if that one satisfies sel, and prev(sel) the
\* sibling right before it; a node that is last (first) or has no parent gives
\* nothing.
C9_NextPrevPerNode ==
  [][/\ last'.op = "next" => ~last'.threw /\ sel' = SiblingsAt(heap, sel, 1, 1, last'.arg)
     /\ last'.op = "prev" => ~last'.threw /\ sel' = SiblingsAt(heap, sel, 1, -1, last'.arg)]_vars

----------------------------------------------------------------------------
(* C10 *)

ProperDescendants(h, n) == Range(PostOrder(h, n)) \ {n}

\* C10: find(selector) returns only proper descendants of the selected nodes.
C10_FindProperDescendants ==
  [][last'.op = "find" =>
       \A r \in Range(sel') : \E n \in Range(sel) : r \in ProperDescendants(heap, n)]_vars

----------------------------------------------------------------------------
(* Vocabulary of the traversal properties *)

\* a is an ancestor of n: n is under a in the walk down from a
IsAncestor(h, a, n) == n \in ProperDescendants(h, a)
\* b is n or an ancestor of n
OnPath(h, b, n) == b = n \/ IsAncestor(h, b, n)

NoDuplicates(s) == \A i, j \in 1..Len(s) : s[i] = s[j] => i = j

\* the first place of the selection whose node gives r, for a relation Gives(r, n)
FirstGiver(Gives(_, _), nodes, r) ==
  CHOOSE k \in 1..Len(nodes) :
    Gives(r, nodes[k]) /\ \A j \in 1..(k - 1) : ~Gives(r, nodes[j])

\* res holds, once each, the nodes some node of the selection gives, by the place
\* of their first giver and, for one giver, from the innermost outward
GivenInOrder(h, res, nodes, Gives(_, _)) ==
  /\ NoDuplicates(res)
  /\ Range(res) = {r \in 1..Len(h) : \E k \in 1..Len(nodes) : Gives(r, nodes[k])}
  /\ \A i, j \in 1..Len(res) :
       i < j =>
         LET ki == FirstGiver(Gives, nodes, res[i])
             kj == FirstGiver(Gives, nodes, res[j])
         IN  ki < kj \/ (ki = kj /\ IsAncestor(h, res[j], res[i]))

----------------------------------------------------------------------------
(* C11 *)

\* C11: has(selector) keeps, in order, the members of the selection that have a
\* descendant satisfying the selector; a member that satisfies the selector itself
\* but has no such descendant (any leaf) is dropped.
C11_HasProperDescendant ==
  [][last'.op = "has" =>
       /\ ~last'.threw
       /\ sel' = SelectSeq(sel, LAMBDA n :
                   \E d \in ProperDescendants(heap, n) : Matches(last'.arg, heap, d))]_vars

----------------------------------------------------------------------------
(* C12 *)

\* C12: in the README's tree, $().find('item_container').filter((n) =>
\* $(n).has('item')).length() is 1.
C12_ReadmeFilterHas ==
  [][(/\ ast = AstReadme
      /\ sel = find(heap, <<ROOT>>, StringSelector("item_container")).nodes
      /\ last'.op = "filter"
      /\ last'.arg = FunctionSelector("hasWrapper", "item"))
       => Len(sel') = 1]_vars

----------------------------------------------------------------------------
(* C13 *)

\* C13: the query function handed raw nodes, alone or among Overlay nodes, returns
\* the selection of exactly those nodes, the raw ones wrapped.
C13_QueryWrapsRaw ==
  (last.op = "query" /\ last.arg.kind = "items") =>
    /\ ~last.threw
    /\ Len(sel) = Len(last.arg.items)
    /\ \A i \in 1..Len(last.arg.items) :
         LET x == last.arg.items[i]
         IN  IF x.isNode THEN sel[i] = x.id ELSE heap[sel[i]].node = x.raw

----------------------------------------------------------------------------
(* C14 *)

\* C14: parent(selector) does not raise for a missing parent: the root gives
\* nothing, the other nodes give their parent if it satisfies the selector.
C14_ParentOfRoot ==
  [][last'.op = "parent" =>
       /\ ~last'.threw
       /\ sel' = Filter(heap,
                        LET ns == SelectSeq(sel, LAMBDA n : heap[n].parent # NoParent)
                        IN  [k \in 1..Len(ns) |-> heap[ns[k]].parent],
                        last'.arg)]_vars

----------------------------------------------------------------------------
(* C15 *)

\* C15: index(selector) is the place of the selection's first node among the
\* children of its parent that satisfy the selector; it is -1, and nothing is
\* raised, when that node does not satisfy the selector, when it has no parent, and
\* when the selection is empty.
C15_IndexOfSelector ==
  last.op = "index" =>
    /\ ~last.threw
    /\ out.items =
         << IF sel = <<>> THEN -1
            ELSE IF heap[sel[1]].parent = NoParent THEN -1
            ELSE IndexOf(SelectSeq(heap[heap[sel[1]].parent].children,
                                   LAMBDA c : heap[c].node.type = last.arg.str),
                         sel[1]) >>

----------------------------------------------------------------------------
(* C16 *)

\* C16: eq(i) raises exactly when i is not an integer; for an integer i it gives
\* the i-th node when 0 <= i < length() and the empty selection otherwise, so
\* first() and last() of an empty selection are empty and do not raise.
C16_EqInRange ==
  [][/\ last'.op = "eq" =>
          LET a == last'.arg
          IN  /\ last'.threw <=> ~a.isInteger
              /\ a.isInteger =>
                   sel' = IF 0 <= a.n /\ a.n < Len(sel) THEN <<sel[a.n + 1]>> ELSE <<>>
     /\ last'.op = "first" =>
          ~last'.threw /\ sel' = IF sel = <<>> THEN <<>> ELSE <<sel[1]>>
     /\ last'.op = "last" =>
          ~last'.threw /\ sel' = IF sel = <<>> THEN <<>> ELSE <<sel[Len(sel)]>>]_vars

\* eq(-1) gave the empty selection
C16_Witness ==
  /\ last.op = "eq" /\ ~last.threw
  /\ last.arg = IntegerArg(-1)
  /\ sel = <<>>

----------------------------------------------------------------------------
(* C17 *)

----------------------------------------------------------------------------
(* C18 *)

\* C18: parents(selector) gives, for each selected node in selection order, its
\* ancestors from the parent outward to the root, later duplicates dropped, then
\* filtered by the selector; a selected node is in the result only as the
\* ancestor of another one.
C18_ParentsOutward ==
  [][last'.op = "parents" =>
       /\ ~last'.threw
       /\ LET Gives(r, n) == IsAncestor(heap, r, n) /\ Matches(last'.arg, heap, r)
          IN  GivenInOrder(heap, sel', sel, Gives)]_vars

\* parents() of the three classes of .r { .g {} } .b
C18_Witness ==
  /\ last.op = "parents" /\ ~last.threw
  /\ ast = AstDeep
  /\ last.arg = NoSelector
  /\ sel = <<2, 1, 4>>

----------------------------------------------------------------------------
(* C19 *)

\* C19: parentsUntil(selector) gives, for each selected node, its ancestors from
\* the parent outward up to, and without, the first one that satisfies the
\* selector; every node of the result fails the selector, and the result has no
\* duplicates.
C19_ParentsUntilStops ==
  [][last'.op = "parentsUntil" =>
       /\ ~last'.threw
       /\ \A r \in Range(sel') : ~Matches(last'.arg, heap, r)
       /\ LET Gives(r, n) ==
                /\ IsAncestor(heap, r, n)
                /\ \A b \in 1..Len(heap) :
                     (IsAncestor(heap, b, n) /\ OnPath(heap, r, b))
                       => ~Matches(last'.arg, heap, b)
          IN  GivenInOrder(heap, sel', sel, Gives)]_vars

\* parentsUntil('stylesheet') of the three classes of .r { .g {} } .b
C19_Witness ==
  /\ last.op = "parentsUntil" /\ ~last.threw
  /\ ast = AstDeep
  /\ last.arg = StringSelector("stylesheet")
  /\ sel = <<2, 4>>

----------------------------------------------------------------------------
(* C20 *)

\* C20: closest(selector) gives, for each selected node, the first node on the
\* path node, parent, ..., root that satisfies the selector; a node without one
\* gives nothing and raises nothing; the result has no duplicates and is in the
\* order of first occurrence.
C20_ClosestOnPath ==
  [][last'.op = "closest" =>
       /\ ~last'.threw
       /\ LET Gives(r, n) ==
                /\ OnPath(heap, r, n)
                /\ Matches(last'.arg, heap, r)
                /\ \A b \in 1..Len(heap) :
                     (OnPath(heap, b, n) /\ IsAncestor(heap, r, b))
                       => ~Matches(last'.arg, heap, b)
          IN  GivenInOrder(heap, sel', sel, Gives)]_vars

\* closest('rule') of the rules of .r { .g {} } .b : each rule is its own closest
C20_Witness ==
  /\ last.op = "closest" /\ ~last.threw
  /\ ast = AstDeep
  /\ last.arg = StringSelector("rule")
  /\ sel = <<4, 2>>

----------------------------------------------------------------------------
(* C21 *)

\* C21: for a selection of one node n at index i of its parent's children c,
\* nextAll(sel) is c[i+1], c[i+2], ... in forward order and prevAll(sel) is
\* c[i-1], ..., c[0], nearest first, both filtered by sel; both are empty when n
\* has no parent or no sibling on that side.
C21_AllSiblingsOfOne ==
  [][(last'.op \in {"nextAll", "prevAll"} /\ Len(sel) = 1) =>
       LET n == sel[1]
           c == IF heap[n].parent = NoParent THEN <<>> ELSE heap[heap[n].parent].children
           j == IndexOf(c, n) + 1
           side == IF j = 0 THEN <<>>
                   ELSE IF last'.op = "nextAll" THEN [k \in 1..(Len(c) - j) |-> c[j + k]]
                   ELSE [k \in 1..(j - 1) |-> c[j - k]]
       IN  /\ ~last'.threw
           /\ sel' = SelectSeq(side, LAMBDA m : Matches(last'.arg, heap, m))]_vars

\* prevAll() of .b in .r .g .b : .g, then .r
C21_Witness ==
  /\ last.op = "prevAll" /\ ~last.threw
  /\ ast = AstFlat
  /\ last.arg = NoSelector
  /\ sel = <<3, 2>>

----------------------------------------------------------------------------
(* C22 *)

\* the overlay createQuery built for the tree
InitialOverlay == NewNode(<<>>, ast, NoParent)

\* C22: no operation modifies the caller's raw tree: after any sequence of
\* traversals, get() calls and mutations, the root still wraps the raw root as it
\* was handed in, and every Overlay node wraps its raw node as it was when the
\* node was constructed (mutations change children arrays of the overlay only).
C22_RawUntouched ==
  /\ heap[ROOT].node = ast
  /\ \A n \in 1..Len(InitialOverlay) : heap[n].node = InitialOverlay[n].node
  /\ \A n \in 1..Len(last.pre) : heap[n].node = last.pre[n].node
  /\ \A n \in Nodes : IsNew(n) /\ heap[n].parent \in Old /\ last.op \in {"after", "before"}
                        => heap[n].node = last.arg.raw

\* the overlay has lost a child of the root and the raw root has not
C22_Witness ==
  /\ last.op = "remove"
  /\ Len(heap[ROOT].children) < Len(InitialOverlay[ROOT].children)
  /\ ToJSON(heap, ROOT) # ast
  /\ heap[ROOT].node = ast

----------------------------------------------------------------------------
(* C23 *)

Traversals ==
  {"children", "find", "filter", "eq", "first", "last", "has", "parent", "parents",
   "parentsUntil", "closest", "next", "prev", "nextAll", "prevAll"}

\* C23: every traversal leaves the overlay as it is (every parent, every children
\* array and its order) and, when it returns, returns a new Selection whose
\* prevWrapper is the receiver, with the node sequence the receiver had.
C23_TraversalsOnlyRead ==
  [][last'.op \in Traversals =>
       /\ heap' = heap
       /\ ~last'.threw => last'.prevWrapper = sel]_vars

\* prevAll() of .b gave a selection of two nodes that points back to the one of .b
C23_Witness ==
  /\ last.op = "prevAll" /\ ~last.threw
  /\ ast = AstFlat
  /\ last.prevWrapper = <<4>>
  /\ sel = <<3, 2>>
  /\ heap = InitialOverlay

----------------------------------------------------------------------------
(* C24 *)

\* d is in the subtree of n, by the parent pointers
InSubtree(h, d, n) == d = n \/ n \in Range(Ancestors(h, d))

\* a comes before b in a post-order walk: b is above a, or a is not above b and
\* comes first in the document (the overlay of a tree numbers its nodes in
\* document order)
PostOrderBefore(h, a, b) ==
  \/ b \in Range(Ancestors(h, a))
  \/ a \notin Range(Ancestors(h, b)) /\ a < b

\* C24: the result of find(selector) holds no node twice, also when the selection
\* holds a node and one of its ancestors; its nodes are the matches of the walks of
\* the selected nodes' subtrees, in selection order and, within one walk, in
\* post-order (children left to right, then the node): a nested match comes before
\* a matching ancestor, leaves come in document order, and a node an earlier walk
\* gave is not repeated.
C24_FindOrder ==
  [][(last'.op = "find" /\ heap = InitialOverlay) =>
       LET Gives(r, n) == InSubtree(heap, r, n) /\ Matches(last'.arg, heap, r)
       IN  /\ ~last'.threw
           /\ NoDuplicates(sel')
           /\ Range(sel') = {r \in Nodes : \E k \in 1..Len(sel) : Gives(r, sel[k])}
           /\ \A i, j \in 1..Len(sel') :
                i < j =>
                  LET ki == FirstGiver(Gives, sel, sel'[i])
                      kj == FirstGiver(Gives, sel, sel'[j])
                  IN  ki < kj \/ (ki = kj /\ PostOrderBefore(heap, sel'[i], sel'[j]))]_vars

\* find('class') on the selection of the inner rule and the outer rule of
\* .r { .g {} } .b : .g once, from the inner rule, then .r
C24_Witness ==
  /\ last.op = "find" /\ ~last.threw
  /\ ast = AstDeep
  /\ last.arg = StringSelector("class")
  /\ last.prevWrapper = <<4, 2>>
  /\ sel = <<5, 3>>

----------------------------------------------------------------------------
(* C25 *)

\* C25: one predicate per call: a string matches a node iff the node's type is
\* that string; a regular expression iff it tests true on the type; a function is
\* the predicate itself and is handed the Overlay node; no selector, or a value of
\* another kind (number, object, null), matches every node and raises nothing, so
\* that filter(x) returns the same nodes in the same order.
C25_SelectorKinds ==
  [][last'.op = "filter" =>
       LET x == last'.arg
           Type(n) == heap[n].node.type
           Keeps(n) ==
             CASE x.kind = "string"   -> Type(n) = x.str
               [] x.kind = "regexp"   ->
                    IF x.anchored THEN Type(n) = x.str
                    ELSE Type(n) \in {"item", "item_container"}
               [] x.kind = "function" ->
                    \/ x.fn = "hasWrapper"
                    \/ \E d \in Range(PostOrder(heap, n)) : Type(d) = x.str
               [] OTHER               -> TRUE
       IN  /\ ~last'.threw
           /\ sel' = SelectSeq(sel, Keeps)
           /\ x.kind \in {"none", "number", "object", "null"} => sel' = sel]_vars

\* filter(/item/) of all the nodes of the README's tree: the items and the
\* item_containers, in the order they had
C25_Witness ==
  /\ last.op = "filter" /\ ~last.threw
  /\ ast = AstReadme
  /\ last.arg = RegExpSelector("item", FALSE)
  /\ last.prevWrapper = <<3, 2, 4, 5, 1>>
  /\ sel = <<3, 2, 4, 5>>

----------------------------------------------------------------------------
(* C26 *)

\* the nodes reachable from the root
Reachable == Range(PostOrder(heap, ROOT))

\* the nodes the last call constructed as the argument's wrapper (their parent is a
\* node the call found), as opposed to the wrappers of the argument's descendants
Inserted == {n \in Nodes : IsNew(n) /\ ~IsNew(heap[n].parent)}

\* C26: with raw nodes only as arguments of after / before and as values returned
\* by a replace callback, the overlay reachable from the root is a tree after any
\* sequence of mutations: each reachable node but the root occurs in exactly one
\* children array at exactly one position, and its parent pointer is the node whose
\* array holds it; each insertion made a wrapper of its own, also when one raw
\* node was inserted at several places.
C26_OverlayIsTree ==
  /\ heap[ROOT].parent = NoParent /\ Occurrences(heap, ROOT) = 0
  /\ \A n \in Reachable \ {ROOT} :
       /\ Occurrences(heap, n) = 1
       /\ AttachedIn(heap, n)
  /\ (last.op \in {"after", "before"} /\ ~last.threw) =>
       /\ Cardinality(Inserted) = Count(LAMBDA n : AttachedIn(last.pre, n), sel, 1)
       /\ \A n \in Inserted :
            /\ heap[n].node = last.arg.raw
            /\ Occurrences(heap, n) = 1 /\ AttachedIn(heap, n)

\* before(z) on the two children of one rule: two wrappers of the one raw node z
C26_Witness ==
  /\ last.op = "before" /\ ~last.threw
  /\ ast = AstNested
  /\ last.arg = RawArg(RawZ)
  /\ sel = <<3, 4>>
  /\ heap[2].children = <<5, 3, 6, 4>>
  /\ heap[5].node = RawZ /\ heap[6].node = RawZ

----------------------------------------------------------------------------
(* C27 *)

\* C27: the node sequence of a Selection is a snapshot: no mutation changes it, and
\* it is not the children array it was read from. A selection made before remove()
\* holds the removed nodes afterwards, and a mutation of all the children of one
\* parent processes each child once: remove() leaves the children array empty, and
\* after(x) with a raw x turns c1..ck into c1,x,c2,x,...,ck,x, of length 2k.
C27_SelectionIsSnapshot ==
  [][(last'.op \in Mutations /\ ~last'.threw) =>
       /\ sel' = sel
       /\ \A p \in Nodes :
            (sel # <<>> /\ sel = heap[p].children /\ hasChildren(heap[p].node)) =>
              LET k == Len(sel)
                  c == heap'[p].children
              IN  /\ last'.op = "remove" =>
                        /\ c = <<>>
                        /\ \A j \in 1..k : sel'[j] = heap[p].children[j]
                  /\ last'.op = "after" =>
                        /\ Len(c) = 2 * k
                        /\ \A j \in 1..k :
                             /\ c[2 * j - 1] = sel[j]
                             /\ c[2 * j] > Len(heap)
                             /\ heap'[c[2 * j]].node = last'.arg.raw
                        /\ \A i, j \in 1..k : i # j => c[2 * i] # c[2 * j]]_vars

\* $(rule).children().after(z) on a rule with two children
C27_Witness ==
  /\ last.op = "after" /\ ~last.threw
  /\ ast = AstNested
  /\ sel = <<3, 4>>
  /\ last.pre[2].children = <<3, 4>>
  /\ heap[2].children = <<3, 5, 4, 6>>

----------------------------------------------------------------------------
(* C28 *)

\* C28: a node spliced out by remove() or replace() keeps its parent pointer but is
\* detached: $(n).index() is -1, and an after, before, remove or replace applied to
\* it later leaves the whole overlay as it is and raises no error; remove() called
\* a second time on the same selection gives the overlay of the first call.
C28_DetachedIsInert ==
  /\ last.op \in Mutations => \A n \in Old : heap[n].parent = last.pre[n].parent
  /\ \A n \in removed :
       /\ heap[n].parent # NoParent
       /\ ~AttachedIn(heap, n)
       /\ index(heap, <<n>>) = -1
       /\ \A x \in RawArgs :
            /\ after(Start, <<n>>, 1, RawArg(x)) = Start
            /\ before(Start, <<n>>, 1, RawArg(x)) = Start
       /\ remove(Start, <<n>>, 1) = Start
       /\ \A fn \in RawCallbacks : replace(Start, <<n>>, 1, fn) = Start
  /\ (last.op \in Mutations /\ sel # <<>> /\ Range(sel) \subseteq removed
        /\ \A n \in Range(sel) : ~AttachedIn(last.pre, n)) =>
       ~last.threw /\ heap = last.pre /\ last.calls = <<>>
  /\ (last.op = "remove" /\ ~last.threw) => remove(Start, sel, 1) = Start

\* remove() called again on a selection whose node the first call spliced out
C28_Witness ==
  /\ last.op = "remove" /\ ~last.threw
  /\ ast = AstFlat
  /\ sel = <<3>> /\ removed = {3}
  /\ last.pre[ROOT].children = <<2, 4>>
  /\ heap = last.pre

----------------------------------------------------------------------------
(* C29 *)

\* the nodes in the children arrays of the nodes of S, and what k rounds of that
\* add to S
ChildrenOf(h, S) == UNION {Range(h[n].children) : n \in S}
RECURSIVE Closure(_, _, _)
Closure(h, S, k) == IF k = 0 THEN S ELSE Closure(h, S \cup ChildrenOf(h, S), k - 1)
\* the nodes below n along the children arrays
DescendantsOf(h, n) == Closure(h, ChildrenOf(h, {n}), Len(h))

\* C29: after any sequence of after / before / remove / replace calls, calls handed
\* existing Overlay nodes included, no node reachable from the root is its own
\* descendant, so that find(), value() and get() terminate on every selection.
C29_Acyclic ==
  \A n \in Closure(heap, {ROOT}, Len(heap)) : n \notin DescendantsOf(heap, n)
====
